---------------------------- MODULE Spec2Model ----------------------------
(***************************************************************************)
(* Model of scripts/update-via-map-file.py: the severity-map loader, the   *)
(* SARIF rewriter, the text-report rewriter and the batch driver main.     *)
(*                                                                         *)
(* A string is a sequence of tokens (a token is a run of characters that   *)
(* the code never splits).  A text file is a sequence of chunks, one of    *)
(* which is the line terminator, so that readlines and writelines are      *)
(* computed and not assumed to be inverse to each other.                   *)
(***************************************************************************)
EXTENDS Integers, Sequences, FiniteSets, TLC

VARIABLES
    \* ---- load_severity_map on its own
    csvSource,      \* the file at csv_path: exists or not, and its rows
    loadState,      \* "called" or "returned"
    mapping,        \* the dict load_severity_map returns
    \* ---- update_sarif on its own
    sarifIn,        \* the parsed input document
    sarifMap,       \* severity_map argument
    sarifRes,       \* outcome of the call
    \* ---- update_text_report on its own
    textIn,         \* input file content
    textMap,        \* severity_map argument
    textRes,        \* outcome of the first call
    textRes2,       \* outcome of the call on the first call's output file
    \* ---- main
    pc,             \* position of main
    csvFile,        \* the severity source: absent or its rows
    severity_map,   \* main's local
    fs,             \* directory -> the four files main touches
    fs0,            \* fs when the current run of main started
    dirIdx,         \* loop index over target_dirs
    runNo,          \* how many times main was started
    raisedIn        \* directories in which an exception was raised

vars == <<csvSource, loadState, mapping, sarifIn, sarifMap, sarifRes,
          textIn, textMap, textRes, textRes2,
          pc, csvFile, severity_map, fs, fs0, dirIdx, runNo, raisedIn>>

loadVars  == <<csvSource, loadState, mapping>>
sarifVars == <<sarifIn, sarifMap, sarifRes>>
textVars  == <<textIn, textMap, textRes, textRes2>>
mainVars  == <<pc, csvFile, severity_map, fs, fs0, dirIdx, runNo, raisedIn>>

-----------------------------------------------------------------------------
(* Bounds *)

MaxRows == 2        \* rows in the severity source
MaxRules == 2       \* rule records in one SARIF document
MaxFileLen == 5     \* chunks in one text report
NumDirs == 2        \* entries of target_dirs
MaxMainRuns == 2    \* successive runs of main over the same tree

-----------------------------------------------------------------------------
(* Strings *)

WS == " "

\* str.strip(): leading and trailing whitespace removed
RECURSIVE StripLeft(_)
StripLeft(s) ==
    IF s # <<>> /\ Head(s) = WS THEN StripLeft(Tail(s)) ELSE s

RECURSIVE StripRight(_)
StripRight(s) ==
    IF s # <<>> /\ s[Len(s)] = WS THEN StripRight(SubSeq(s, 1, Len(s) - 1)) ELSE s

Strip(s) == StripRight(StripLeft(s))

\* str.upper() on one token
UpperTok(t) ==
    CASE t = "info"     -> "INFO"
      [] t = "Medium"   -> "MEDIUM"
      [] t = "high"     -> "HIGH"
      [] t = "critical" -> "CRITICAL"
      [] t = "bogus"    -> "BOGUS"
      [] OTHER          -> t

Upper(s) == [i \in 1..Len(s) |-> UpperTok(s[i])]

\* str.startswith(prefix)
StartsWith(s, p) == Len(s) >= Len(p) /\ SubSeq(s, 1, Len(p)) = p

-----------------------------------------------------------------------------
(* The score tables *)

SEVERITY_TO_SCORE ==
    [INFO |-> "0.0", LOW |-> "3.0", MEDIUM |-> "6.0", HIGH |-> "8.0", CRITICAL |-> "9.0"]

SEVERITY_TO_LEVEL ==
    [INFO |-> "note", LOW |-> "note", MEDIUM |-> "warning", HIGH |-> "error",
     CRITICAL |-> "error"]

\* `label in SEVERITY_TO_SCORE` for a string label
InScoreTable(label) == Len(label) = 1 /\ label[1] \in DOMAIN SEVERITY_TO_SCORE

\* SEVERITY_TO_SCORE.get(label, "0.0")
ScoreGet(label) ==
    IF InScoreTable(label) THEN SEVERITY_TO_SCORE[label[1]] ELSE "0.0"

\* SEVERITY_TO_LEVEL.get(label, "note")
LevelGet(label) ==
    IF Len(label) = 1 /\ label[1] \in DOMAIN SEVERITY_TO_LEVEL
    THEN SEVERITY_TO_LEVEL[label[1]] ELSE "note"

-----------------------------------------------------------------------------
(* Dicts: a dict is a function; d[k] = v is DictSet *)

EmptyDict == [k \in {} |-> <<>>]

DictSet(d, k, v) == [x \in DOMAIN d \cup {k} |-> IF x = k THEN v ELSE d[x]]

-----------------------------------------------------------------------------
(* load_severity_map *)

\* line 46-47
CoalesceInfo(severity_text) ==
    IF severity_text = <<"INFO">> THEN <<"LOW">> ELSE severity_text

\* a loader that never overwrites an identifier already present
LoadRowKeepFirst(m, row) ==
    IF Len(row) < 2 THEN m
    ELSE LET rule_id == Strip(row[1])
             severity_text == CoalesceInfo(Upper(Strip(row[2])))
         IN  IF InScoreTable(severity_text) /\ rule_id \notin DOMAIN m
             THEN DictSet(m, rule_id, severity_text) ELSE m

\* one iteration of the for loop, lines 38-50
LoadRow(m, row) ==
    IF Len(row) < 2 THEN m
    ELSE LET rule_id == Strip(row[1])
             severity_text == CoalesceInfo(Upper(Strip(row[2])))
         IN  IF InScoreTable(severity_text)
             THEN DictSet(m, rule_id, severity_text) ELSE m

RECURSIVE LoadRows(_, _)
LoadRows(m, rows) ==
    IF rows = <<>> THEN m ELSE LoadRows(LoadRow(m, Head(rows)), Tail(rows))

\* A severity source is [exists |-> BOOLEAN, rows |-> Seq(row)]
load_severity_map(csv) ==
    IF ~csv.exists THEN EmptyDict ELSE LoadRows(EmptyDict, csv.rows)

\* Inputs of the loader
IdFields ==
    { <<"CKV_", "A">>, <<WS, "CKV_", "A">>, <<"CKV2_", "B", WS>> }

SeverityFields ==
    { <<"high">>, <<WS, "high", WS>>, <<"CRITICAL">>, <<"info">>, <<"Medium", WS>>,
      <<"bogus">>, <<>> }

ExtraFields == { <<"x">> }

CsvRowSet ==
    {<<>>}
    \cup { <<i>> : i \in IdFields }
    \cup { <<i, s>> : i \in IdFields, s \in SeverityFields }
    \cup { <<i, s, e>> : i \in IdFields, s \in { <<"high">>, <<"bogus">> }, e \in ExtraFields }

RECURSIVE SeqsUpTo(_, _)
SeqsUpTo(S, n) ==
    IF n = 0 THEN {<<>>}
    ELSE LET shorter == SeqsUpTo(S, n - 1)
         IN  shorter \cup { Append(q, x) : q \in { r \in shorter : Len(r) = n - 1 }, x \in S }

-----------------------------------------------------------------------------
(* update_sarif *)

\* Values a rule record is built from
PropsAbsent == [k |-> "absent", sev |-> "none", other |-> FALSE]
DcAbsent    == [k |-> "absent", level |-> "none", other |-> FALSE]

\* a scope test that takes every identifier for a scanner rule
IsCheckovRuleAnyId(rule_id) == TRUE

\* rule_id.startswith(("CKV_", "CKV2_")), line 78

IsCheckovRule(rule_id) ==
    StartsWith(rule_id, <<"CKV_">>) \/ StartsWith(rule_id, <<"CKV2_">>)

\* an assignment that leaves an existing properties sub-record as it is
SetScoreKeepExisting(props, new_score) ==
    IF props.k = "absent" THEN [k |-> "dict", sev |-> new_score, other |-> FALSE]
    ELSE props

\* lines 88-90: the properties sub-record after the assignment
SetScore(props, new_score) ==
    IF props.k = "absent" THEN [k |-> "dict", sev |-> new_score, other |-> FALSE]
    ELSE [props EXCEPT !.sev = new_score]

\* lines 93-95: the defaultConfiguration sub-record after the assignment
SetLevel(dc, new_level) ==
    IF dc.k = "absent" THEN [k |-> "dict", level |-> new_level, other |-> FALSE]
    ELSE [dc EXCEPT !.level = new_level]

\* lines 73-99 for one rule record:
\*   what is "skip" | "update" | "missing" | "raise"
RuleStep(rule, smap) ==
    IF rule.idk = "absent" \/ (rule.idk = "str" /\ rule.id = <<>>)
    THEN [what |-> "skip", rule |-> rule]                       \* not rule_id
    ELSE IF rule.idk = "nonstr"
    THEN [what |-> "raise", rule |-> rule]                      \* no startswith
    ELSE IF ~IsCheckovRule(rule.id)
    THEN [what |-> "skip", rule |-> rule]
    ELSE IF rule.id \notin DOMAIN smap
    THEN [what |-> "missing", rule |-> rule]
    ELSE IF rule.props.k = "null" \/ rule.dc.k = "null"
    THEN [what |-> "raise", rule |-> rule]                      \* item assignment on a non-dict
    ELSE [what |-> "update",
          rule |-> [rule EXCEPT
                      !.props = SetScore(rule.props, ScoreGet(smap[rule.id])),
                      !.dc    = SetLevel(rule.dc, LevelGet(smap[rule.id]))]]

\* the inner for loop over one driver's rules, threading the locals
RECURSIVE RulesLoop(_, _, _)
RulesLoop(rules, smap, acc) ==
    IF rules = <<>> \/ acc.raised THEN acc
    ELSE LET st == RuleStep(Head(rules), smap)
         IN  RulesLoop(Tail(rules), smap,
               [rules   |-> Append(acc.rules, st.rule),
                count   |-> acc.count + (IF st.what = "update" THEN 1 ELSE 0),
                missing |-> acc.missing \cup (IF st.what = "missing" THEN {Head(rules).id} ELSE {}),
                raised  |-> st.what = "raise"])

\* run.get("tool", {}).get("driver", {}).get("rules", []), lines 68-70
RulesOf(run) ==
    IF run.hasTool /\ run.hasDriver /\ run.hasRules THEN run.rules ELSE <<>>

\* the outer for loop, lines 67-99
RECURSIVE RunsLoop(_, _, _)
RunsLoop(runs, smap, acc) ==
    IF runs = <<>> \/ acc.raised THEN acc
    ELSE LET run == Head(runs)
             r   == RulesLoop(RulesOf(run), smap,
                       [rules |-> <<>>, count |-> acc.count,
                        missing |-> acc.missing, raised |-> FALSE])
             run2 == IF run.hasTool /\ run.hasDriver /\ run.hasRules /\ ~r.raised
                     THEN [run EXCEPT !.rules = r.rules] ELSE run
         IN  RunsLoop(Tail(runs), smap,
               [runs |-> Append(acc.runs, run2), count |-> r.count,
                missing |-> r.missing, raised |-> r.raised])

NoDoc == [top |-> "none", hasRuns |-> FALSE, runs |-> <<>>]

AbsentFile  == [kind |-> "absent",  fmt |-> "none", doc |-> NoDoc, chunks |-> <<>>]
GarbageFile == [kind |-> "garbage", fmt |-> "none", doc |-> NoDoc, chunks |-> <<>>]
PartialFile == [kind |-> "partial", fmt |-> "none", doc |-> NoDoc, chunks |-> <<>>]

\* json.dump(sarif_data, f, indent=2), line 102
JsonFile(doc) == [kind |-> "json", fmt |-> "indent2", doc |-> doc, chunks |-> <<>>]

NoSarifResult(status) ==
    [status |-> status, out |-> AbsentFile, updates_count |-> 0, missing_ids |-> {}]

\* an update_sarif that treats a document it cannot read like a missing one
update_sarif_swallow(file, smap) ==
    IF file.kind # "json" \/ file.doc.top # "object" THEN NoSarifResult("notfound")
    ELSE LET r == RunsLoop(IF file.doc.hasRuns THEN file.doc.runs ELSE <<>>, smap,
                     [runs |-> <<>>, count |-> 0, missing |-> {}, raised |-> FALSE])
         IN  IF r.raised THEN NoSarifResult("notfound")
             ELSE [status |-> "written",
                   out |-> JsonFile([file.doc EXCEPT !.runs = r.runs]),
                   updates_count |-> r.count, missing_ids |-> r.missing]

\* update_sarif up to the point where it opens the output, lines 55-99:
\*   status "notfound" (returned at line 61), "raised" (an exception left the
\*   function before line 101) or "written" (out is what line 102 dumps)
update_sarif(file, smap) ==
    IF file.kind = "absent" THEN NoSarifResult("notfound")
    ELSE IF file.kind # "json" THEN NoSarifResult("raised")       \* JSONDecodeError
    ELSE IF file.doc.top # "object" THEN NoSarifResult("raised")  \* no .get
    ELSE LET r == RunsLoop(IF file.doc.hasRuns THEN file.doc.runs ELSE <<>>, smap,
                     [runs |-> <<>>, count |-> 0, missing |-> {}, raised |-> FALSE])
         IN  IF r.raised THEN NoSarifResult("raised")
             ELSE [status |-> "written",
                   out |-> JsonFile([file.doc EXCEPT !.runs = r.runs]),
                   updates_count |-> r.count, missing_ids |-> r.missing]

-----------------------------------------------------------------------------
(* update_text_report *)

\* Chunks of a text file.  A "check" chunk is the text "Check: " followed by
\* the string v; a "sev" chunk is the string v with "Severity: " inside it
\* (v = <<"\t", label>> reads "\tSeverity: <label>"); "txt" is any other text
\* without a line terminator; "nl" is "\n".
NL == [k |-> "nl", v |-> <<>>]
Txt == [k |-> "txt", v |-> <<>>]
CheckChunk(id) == [k |-> "check", v |-> id]
SevChunk(v) == [k |-> "sev", v |-> v]

TextFile(chunks) == [kind |-> "text", fmt |-> "none", doc |-> NoDoc, chunks |-> chunks]

\* f.readlines(): every line keeps its terminator; the last may have none
RECURSIVE ReadLinesFrom(_, _, _)
ReadLinesFrom(chunks, cur, acc) ==
    IF chunks = <<>> THEN (IF cur = <<>> THEN acc ELSE Append(acc, cur))
    ELSE IF Head(chunks) = NL
         THEN ReadLinesFrom(Tail(chunks), <<>>, Append(acc, Append(cur, NL)))
         ELSE ReadLinesFrom(Tail(chunks), Append(cur, Head(chunks)), acc)

ReadLines(chunks) == ReadLinesFrom(chunks, <<>>, <<>>)

\* f.writelines(lines): the strings one after the other, nothing added
RECURSIVE WriteLines(_)
WriteLines(lines) ==
    IF lines = <<>> THEN <<>> ELSE Head(lines) \o WriteLines(Tail(lines))

\* tokens made of characters of the class [A-Z0-9_]
IdCharTokens == {"A", "B", "C", "Z", "CKV_", "CKV2_", "CCL_"}

\* the longest run of [A-Z0-9_] tokens of s from position i on: its last index
RECURSIVE ClassRunEnd(_, _)
ClassRunEnd(s, i) ==
    IF i + 1 <= Len(s) /\ s[i + 1] \in IdCharTokens THEN ClassRunEnd(s, i + 1) ELSE i

\* re_check_line.search(line), line 121 and 126-128: group(1), or <<>> for no match
CheckId(line) ==
    IF line # <<>> /\ line[1].k = "check"
       /\ Len(line[1].v) >= 2
       /\ line[1].v[1] \in {"CKV_", "CKV2_", "CCL_"}
       /\ line[1].v[2] \in IdCharTokens
    THEN SubSeq(line[1].v, 1, ClassRunEnd(line[1].v, 2))
    ELSE <<>>

\* "Severity:" in line
HasSeverity(line) == \E j \in 1..Len(line) : line[j].k = "sev"

\* lines 131-134: lines[i+1] and lines[i+2], "" past the end
AlreadyAnnotated(lines, i) ==
    \/ (i + 1 <= Len(lines) /\ HasSeverity(lines[i + 1]))
    \/ (i + 2 <= Len(lines) /\ HasSeverity(lines[i + 2]))

\* f"\tSeverity: {severity_label}\n", line 137
NewLine(severity_label) == << SevChunk(<<"\t">> \o severity_label), NL >>

\* the for loop, lines 123-139, from index i on
RECURSIVE TextLoop(_, _, _, _)
TextLoop(lines, i, tmap, acc) ==
    IF i > Len(lines) THEN acc
    ELSE LET id == CheckId(lines[i])
             inject == id # <<>> /\ ~AlreadyAnnotated(lines, i) /\ id \in DOMAIN tmap
         IN  TextLoop(lines, i + 1, tmap,
               [updated_lines |-> IF inject
                                  THEN acc.updated_lines \o << lines[i], NewLine(tmap[id]) >>
                                  ELSE Append(acc.updated_lines, lines[i]),
                updates_count |-> acc.updates_count + (IF inject THEN 1 ELSE 0)])

NoTextResult(status) == [status |-> status, out |-> AbsentFile, updates_count |-> 0]

\* an update_text_report that writes an empty report when the input is missing
update_text_report_touch(file, tmap) ==
    IF file.kind = "absent"
    THEN [status |-> "written", out |-> TextFile(<<>>), updates_count |-> 0]
    ELSE IF file.kind # "text" THEN NoTextResult("raised")
    ELSE LET r == TextLoop(ReadLines(file.chunks), 1, tmap,
                     [updated_lines |-> <<>>, updates_count |-> 0])
         IN  [status |-> "written", out |-> TextFile(WriteLines(r.updated_lines)),
              updates_count |-> r.updates_count]

\* update_text_report up to the point where it opens the output, lines 109-139:
\*   status "notfound" (returned at line 115), "raised" (the file is not UTF-8
\*   text) or "written" (out is what line 142 writes)
update_text_report(file, tmap) ==
    IF file.kind = "absent" THEN NoTextResult("notfound")
    ELSE IF file.kind # "text" THEN NoTextResult("raised")
    ELSE LET r == TextLoop(ReadLines(file.chunks), 1, tmap,
                     [updated_lines |-> <<>>, updates_count |-> 0])
         IN  [status |-> "written", out |-> TextFile(WriteLines(r.updated_lines)),
              updates_count |-> r.updates_count]

-----------------------------------------------------------------------------
(* Inputs of the rewriters *)

ID_A == <<"CKV_", "A">>
ID_B == <<"CKV2_", "B">>
ID_C == <<"CCL_", "C">>

\* severity maps load_severity_map can return
MapAC == LoadRows(EmptyDict, << <<ID_A, <<"high">>>>, <<ID_C, <<"info">>>> >>)
MapB  == LoadRows(EmptyDict, << <<ID_B, <<"Medium", WS>>>> >>)
MapA  == LoadRows(EmptyDict, << <<ID_A, <<"critical">>>> >>)

SarifMaps == {MapAC, MapB}
TextMaps  == {MapAC, MapA}

RuleIdents ==
    { [idk |-> "absent", id |-> <<>>], [idk |-> "nonstr", id |-> <<>>],
      [idk |-> "str", id |-> ID_A], [idk |-> "str", id |-> ID_B],
      [idk |-> "str", id |-> ID_C] }

RuleShapes ==
    { [props |-> PropsAbsent, dc |-> DcAbsent],
      [props |-> [k |-> "dict", sev |-> "none", other |-> TRUE],
       dc    |-> [k |-> "dict", level |-> "warning", other |-> FALSE]],
      [props |-> [k |-> "dict", sev |-> "1.0", other |-> TRUE],
       dc    |-> DcAbsent] }

RuleSet ==
    { [idk |-> i.idk, id |-> i.id, props |-> sh.props, dc |-> sh.dc] :
        i \in RuleIdents, sh \in RuleShapes }

RunWith(rules) == [hasTool |-> TRUE, hasDriver |-> TRUE, hasRules |-> TRUE, rules |-> rules]
RunNoTool  == [hasTool |-> FALSE, hasDriver |-> FALSE, hasRules |-> FALSE, rules |-> <<>>]
RunNoRules == [hasTool |-> TRUE, hasDriver |-> TRUE, hasRules |-> FALSE, rules |-> <<>>]

\* the ways the rule records q are laid out over the runs of a document: one
\* run, two runs split at any place, and beside a run without tool or rules
RunLayouts(q) ==
    { << RunWith(q) >>, << RunNoTool, RunWith(q) >>, << RunWith(q), RunNoRules >> }
    \cup { << RunWith(SubSeq(q, 1, n)), RunWith(SubSeq(q, n + 1, Len(q))) >> : n \in 0..Len(q) }

ObjectDoc(runs) == [top |-> "object", hasRuns |-> TRUE, runs |-> runs]

SourceJson(doc) == [kind |-> "json", fmt |-> "source", doc |-> doc, chunks |-> <<>>]

\* the input files: documents of at most maxRules rule records
SarifFiles(maxRules) ==
    { AbsentFile, GarbageFile,
      SourceJson([top |-> "array", hasRuns |-> FALSE, runs |-> <<>>]),
      SourceJson([top |-> "object", hasRuns |-> FALSE, runs |-> <<>>]) }
    \cup { SourceJson(ObjectDoc(<<>>)) }
    \cup UNION { { SourceJson(ObjectDoc(runs)) : runs \in RunLayouts(q) } :
                    q \in SeqsUpTo(RuleSet, maxRules) }

TextChunks ==
    { CheckChunk(ID_A), CheckChunk(ID_C \o <<"x">>), SevChunk(<<"\t", "HIGH">>), Txt, NL }

\* the input files: reports of at most maxLen chunks
TextFiles(maxLen) ==
    { AbsentFile, GarbageFile } \cup { TextFile(c) : c \in SeqsUpTo(TextChunks, maxLen) }

Idle == "idle"

-----------------------------------------------------------------------------
(* load_severity_map called on one severity source *)

LoadIdle == /\ csvSource = [exists |-> FALSE, rows |-> <<>>]
            /\ loadState = Idle
            /\ mapping = EmptyDict

SarifIdle == /\ sarifIn = AbsentFile
             /\ sarifMap = EmptyDict
             /\ sarifRes = NoSarifResult(Idle)

TextIdle == /\ textIn = AbsentFile
            /\ textMap = EmptyDict
            /\ textRes = NoTextResult(Idle)
            /\ textRes2 = NoTextResult(Idle)

MainIdle == /\ pc = Idle
            /\ csvFile = [exists |-> FALSE, rows |-> <<>>]
            /\ severity_map = EmptyDict
            /\ fs = <<>>
            /\ fs0 = <<>>
            /\ dirIdx = 0
            /\ runNo = 0
            /\ raisedIn = {}

InitLoad ==
    /\ csvSource \in { [exists |-> FALSE, rows |-> <<>>] }
                     \cup { [exists |-> TRUE, rows |-> r] : r \in SeqsUpTo(CsvRowSet, MaxRows) }
    /\ loadState = "called"
    /\ mapping = EmptyDict
    /\ SarifIdle /\ TextIdle /\ MainIdle

CallLoad ==
    /\ loadState = "called"
    /\ mapping' = load_severity_map(csvSource)
    /\ loadState' = "returned"
    /\ UNCHANGED <<csvSource, sarifVars, textVars, mainVars>>

NextLoad == CallLoad

SpecLoad == InitLoad /\ [][NextLoad]_vars

-----------------------------------------------------------------------------
(* update_sarif called on one file *)

InitSarif ==
    /\ sarifIn \in SarifFiles(MaxRules)
    /\ sarifMap \in SarifMaps
    /\ sarifRes = NoSarifResult("called")
    /\ LoadIdle /\ TextIdle /\ MainIdle

CallUpdateSarif ==
    /\ sarifRes.status = "called"
    /\ sarifRes' = update_sarif(sarifIn, sarifMap)
    /\ UNCHANGED <<sarifIn, sarifMap, loadVars, textVars, mainVars>>

NextSarif == CallUpdateSarif

SpecSarif == InitSarif /\ [][NextSarif]_vars

-----------------------------------------------------------------------------
(* update_text_report called on one file, then on the file it wrote *)

InitText ==
    /\ textIn \in TextFiles(MaxFileLen)
    /\ textMap \in TextMaps
    /\ textRes = NoTextResult("called")
    /\ textRes2 = NoTextResult(Idle)
    /\ LoadIdle /\ SarifIdle /\ MainIdle

CallUpdateText ==
    /\ textRes.status = "called"
    /\ textRes' = update_text_report(textIn, textMap)
    /\ UNCHANGED <<textIn, textMap, textRes2, loadVars, sarifVars, mainVars>>

CallUpdateTextAgain ==
    /\ textRes.status = "written"
    /\ textRes2.status = Idle
    /\ textRes2' = update_text_report(textRes.out, textMap)
    /\ UNCHANGED <<textIn, textMap, textRes, loadVars, sarifVars, mainVars>>

NextText == CallUpdateText \/ CallUpdateTextAgain

SpecText == InitText /\ [][NextText]_vars

-----------------------------------------------------------------------------
(* Claims about load_severity_map *)

FiveLabels == { <<"INFO">>, <<"LOW">>, <<"MEDIUM">>, <<"HIGH">>, <<"CRITICAL">> }

\* the label of row i as the claim normalizes it: trimmed and upper-cased
RowLabel(i) == Upper(Strip(csvSource.rows[i][2]))
RowIdent(i) == Strip(csvSource.rows[i][1])

ValidRow(i) == Len(csvSource.rows[i]) >= 2 /\ RowLabel(i) \in FiveLabels

ValidRows == { i \in 1..Len(csvSource.rows) : ValidRow(i) }

\* C7 as stated: every row with at least two fields and a label of the fixed
\* set (after trim and upper-casing) is in the returned map under its trimmed
\* identifier with that normalized label, and every value of the map is one
\* of the five labels.
C7_AsStated ==
    loadState = "returned" =>
        /\ \A i \in ValidRows :
              RowIdent(i) \in DOMAIN mapping /\ mapping[RowIdent(i)] = RowLabel(i)
        /\ \A k \in DOMAIN mapping : mapping[k] \in FiveLabels

\* C7 amended: the last row with a label of the fixed set decides its
\* identifier, INFO is stored as LOW, rows without such a label contribute
\* nothing, and a missing source gives the empty map.
C7_LastValidRowWinsInfoAsLow ==
    loadState = "returned" =>
        /\ \A i \in ValidRows :
              (\A j \in ValidRows : j > i => RowIdent(j) # RowIdent(i)) =>
                  /\ RowIdent(i) \in DOMAIN mapping
                  /\ mapping[RowIdent(i)] =
                        (IF RowLabel(i) = <<"INFO">> THEN <<"LOW">> ELSE RowLabel(i))
        /\ \A k \in DOMAIN mapping :
              /\ mapping[k] \in FiveLabels \ { <<"INFO">> }
              /\ \E i \in ValidRows : RowIdent(i) = k
        /\ (~csvSource.exists => mapping = EmptyDict)

\* a source with a padded lower-case label, a later row for the same
\* identifier that is skipped, and the padded row's label in the map
C7_Witness ==
    /\ loadState = "returned"
    /\ csvSource.rows = << << <<WS, "CKV_", "A">>, <<WS, "high", WS>> >>,
                           << <<"CKV_", "A">>, <<"bogus">> >> >>
    /\ mapping = [k \in {ID_A} |-> <<"HIGH">>]

-----------------------------------------------------------------------------
(* Claims about update_sarif *)

\* the rule records of run r as the loop sees them
InRules(r)  == RulesOf(sarifIn.doc.runs[r])
OutRules(r) == RulesOf(sarifRes.out.doc.runs[r])

SarifRunIdx == IF sarifIn.doc.hasRuns THEN 1..Len(sarifIn.doc.runs) ELSE {}

InScope(rule) ==
    /\ rule.idk = "str"
    /\ Len(rule.id) >= 1
    /\ rule.id[1] \in {"CKV_", "CKV2_"}

Enrichable(rule) == InScope(rule) /\ rule.id \in DOMAIN sarifMap

SameLayout ==
    /\ sarifRes.out.kind = "json"
    /\ sarifRes.out.doc.top = sarifIn.doc.top
    /\ sarifRes.out.doc.hasRuns = sarifIn.doc.hasRuns
    /\ Len(sarifRes.out.doc.runs) = Len(sarifIn.doc.runs)
    /\ \A r \in 1..Len(sarifIn.doc.runs) :
          /\ sarifRes.out.doc.runs[r].hasTool = sarifIn.doc.runs[r].hasTool
          /\ sarifRes.out.doc.runs[r].hasDriver = sarifIn.doc.runs[r].hasDriver
          /\ sarifRes.out.doc.runs[r].hasRules = sarifIn.doc.runs[r].hasRules
          /\ Len(sarifRes.out.doc.runs[r].rules) = Len(sarifIn.doc.runs[r].rules)

\* C4: in the document update_sarif writes, every rule record whose id starts
\* with CKV_ or CKV2_ and is a key of the severity map has
\* properties["security-severity"] = SEVERITY_TO_SCORE[label] and
\* defaultConfiguration["level"] = SEVERITY_TO_LEVEL[label], whether or not
\* the two sub-records existed in the input.
C4_MappedRulesGetScoreAndLevel ==
    sarifRes.status = "written" =>
        /\ SameLayout
        /\ \A r \in SarifRunIdx : \A j \in 1..Len(InRules(r)) :
              Enrichable(InRules(r)[j]) =>
                 LET label == sarifMap[InRules(r)[j].id][1]
                     out   == OutRules(r)[j]
                 IN  /\ out.id = InRules(r)[j].id
                     /\ out.props.k = "dict"
                     /\ out.props.sev = SEVERITY_TO_SCORE[label]
                     /\ out.dc.k = "dict"
                     /\ out.dc.level = SEVERITY_TO_LEVEL[label]

\* a written document with a mapped CKV2_ rule that had neither sub-record and
\* a mapped rule that had a properties sub-record with another score
C4_Witness ==
    /\ sarifRes.status = "written"
    /\ \E r \in SarifRunIdx : \E j \in 1..Len(InRules(r)) :
          /\ Enrichable(InRules(r)[j])
          /\ InRules(r)[j].id = ID_B
          /\ InRules(r)[j].props.k = "absent" /\ InRules(r)[j].dc.k = "absent"
          /\ OutRules(r)[j].props.sev = "6.0" /\ OutRules(r)[j].dc.level = "warning"
    /\ \E r \in SarifRunIdx : \E j \in 1..Len(InRules(r)) :
          /\ Enrichable(InRules(r)[j])
          /\ InRules(r)[j].props.sev = "1.0"

\* C8: update_sarif leaves every rule record unchanged that is not both in
\* scope and in the map; the ids of in-scope records absent from the map are
\* exactly the missing set; a document without in-scope ids is written back
\* as the same tree with update count 0.
C8_OtherRulesUntouched ==
    sarifRes.status = "written" =>
        /\ SameLayout
        /\ \A r \in SarifRunIdx : \A j \in 1..Len(InRules(r)) :
              ~Enrichable(InRules(r)[j]) => OutRules(r)[j] = InRules(r)[j]
        /\ sarifRes.missing_ids =
              { InRules(r)[j].id : <<r, j>> \in
                  { p \in SarifRunIdx \X (1..MaxRules + 1) :
                      /\ p[2] <= Len(InRules(p[1]))
                      /\ InScope(InRules(p[1])[p[2]])
                      /\ InRules(p[1])[p[2]].id \notin DOMAIN sarifMap } }
        /\ (\A r \in SarifRunIdx : \A j \in 1..Len(InRules(r)) : ~InScope(InRules(r)[j])) =>
              /\ sarifRes.out.doc = sarifIn.doc
              /\ sarifRes.updates_count = 0

\* a written document holding a third-party record whose id is a key of the
\* map, written back as it was, and an in-scope record absent from the map
C8_Witness ==
    /\ sarifRes.status = "written"
    /\ sarifMap = MapAC
    /\ sarifRes.missing_ids = {ID_B}
    /\ \E r \in SarifRunIdx : \E j \in 1..Len(InRules(r)) :
          /\ InRules(r)[j].id = ID_C
          /\ InRules(r)[j].props.k = "absent"
          /\ OutRules(r)[j] = InRules(r)[j]

-----------------------------------------------------------------------------
(* Claims about update_text_report *)

\* the lines of the input file and of the file the first call wrote
InLines  == ReadLines(textIn.chunks)
OutLines == ReadLines(textRes.out.chunks)

\* a check block starts at input line i; its identifier
IsMarker(i) == CheckId(InLines[i]) # <<>>

\* the block at line i carries a severity line: one of the next two lines
Carries(i) ==
    \E n \in {i + 1, i + 2} : n <= Len(InLines) /\ HasSeverity(InLines[n])

\* the blocks the claim says gain a line
Gains(i) == IsMarker(i) /\ ~Carries(i) /\ CheckId(InLines[i]) \in DOMAIN textMap

\* where input line i is in the output if exactly the gaining blocks gained a line
Pos(i) == i + Cardinality({ j \in 1..(i - 1) : Gains(j) })

\* C5 as stated: the output holds the input's lines in order, and between them
\* nothing but one "\tSeverity: <label>" line right after the marker line of
\* every block that carried no severity line and whose identifier is mapped;
\* a block that carried one gains none.
C5_AsStated ==
    textRes.status = "written" =>
        /\ Len(OutLines) = Len(InLines) + Cardinality({ i \in 1..Len(InLines) : Gains(i) })
        /\ \A i \in 1..Len(InLines) :
              /\ Pos(i) <= Len(OutLines)
              /\ OutLines[Pos(i)] = InLines[i]
              /\ Gains(i) =>
                    /\ Pos(i) + 1 <= Len(OutLines)
                    /\ OutLines[Pos(i) + 1] =
                          << SevChunk(<<"\t">> \o textMap[CheckId(InLines[i])]), NL >>

\* every line of the input ends with a line terminator
Terminated(file) ==
    file.chunks = <<>> \/ file.chunks[Len(file.chunks)] = NL

\* C5 for reports whose last line is terminated (holds; not what C5 states)
C5_TerminatedInput ==
    Terminated(textIn) => C5_AsStated

\* C6 as stated: update_text_report applied to the file it wrote, with the
\* same map, inserts nothing and writes the same content.
C6_AsStated ==
    textRes2.status # Idle =>
        /\ textRes2.status = "written"
        /\ textRes2.updates_count = 0
        /\ textRes2.out = textRes.out

\* C6 for reports whose last line is terminated (holds; not what C6 states)
C6_TerminatedInput ==
    Terminated(textIn) => C6_AsStated

-----------------------------------------------------------------------------
(* main *)

Dirs == 1..NumDirs

Running == {"sarif", "sarif_dump", "text", "text_write", "unlink_sarif", "unlink_txt"}
Ended   == {"done", "aborted", "crashed"}

\* a guard that lets an empty map through
MainHasMapAlways(m) == TRUE

\* `if not severity_map: return` negated, lines 151-153
MainHasMap(m) == DOMAIN m # {}

\* what main finds in a directory
GoodRule == [idk |-> "str", id |-> ID_A, props |-> PropsAbsent, dc |-> DcAbsent]
NullRule == [idk |-> "str", id |-> ID_A,
             props |-> [k |-> "null", sev |-> "none", other |-> FALSE], dc |-> DcAbsent]

MainSarifInputs ==
    { AbsentFile, GarbageFile,
      SourceJson(ObjectDoc(<< RunWith(<<GoodRule>>) >>)),
      SourceJson(ObjectDoc(<< RunWith(<<NullRule>>) >>)) }

MainTextInputs ==
    { AbsentFile, GarbageFile, TextFile(<< CheckChunk(ID_A), NL, Txt, NL >>) }

MainCsvFiles ==
    { [exists |-> FALSE, rows |-> <<>>],
      [exists |-> TRUE, rows |-> << << <<"CKV_", "A">>, <<"bogus">> >> >>],
      [exists |-> TRUE, rows |-> << << <<"CKV_", "A">>, <<"high">> >> >>] }

InitMain ==
    /\ pc = "start"
    /\ csvFile \in MainCsvFiles
    /\ severity_map = EmptyDict
    /\ fs \in [Dirs -> { [in_sarif |-> a, out_sarif |-> AbsentFile,
                           in_txt |-> b, out_txt |-> AbsentFile] :
                           a \in MainSarifInputs, b \in MainTextInputs }]
    /\ fs0 = fs
    /\ dirIdx = 0
    /\ runNo = 1
    /\ raisedIn = {}
    /\ LoadIdle /\ SarifIdle /\ TextIdle

\* lines 149-158
MainLoad ==
    /\ pc = "start"
    /\ severity_map' = load_severity_map(csvFile)
    /\ IF MainHasMap(severity_map')
       THEN pc' = "sarif" /\ dirIdx' = 1
       ELSE pc' = "done" /\ dirIdx' = 0
    /\ UNCHANGED <<csvFile, fs, fs0, runNo, raisedIn, loadVars, sarifVars, textVars>>

Frame == UNCHANGED <<csvFile, severity_map, fs0, runNo, loadVars, sarifVars, textVars>>

Raise(cause) ==
    /\ pc' = "aborted"
    /\ raisedIn' = raisedIn \cup { [dir |-> dirIdx, cause |-> cause] }

\* line 170 up to the open of line 101, which creates or truncates the output
SarifStart ==
    /\ pc = "sarif"
    /\ LET r == update_sarif(fs[dirIdx].in_sarif, severity_map)
       IN  CASE r.status = "notfound" ->
                  pc' = "text" /\ UNCHANGED <<fs, raisedIn>>
             [] r.status = "raised" ->
                  Raise("document") /\ UNCHANGED fs
             [] r.status = "written" ->
                  /\ fs' = [fs EXCEPT ![dirIdx].out_sarif = PartialFile]
                  /\ pc' = "sarif_dump"
                  /\ UNCHANGED raisedIn
    /\ UNCHANGED dirIdx
    /\ Frame

\* line 102
SarifDump ==
    /\ pc = "sarif_dump"
    /\ fs' = [fs EXCEPT ![dirIdx].out_sarif =
                 update_sarif(fs[dirIdx].in_sarif, severity_map).out]
    /\ pc' = "text"
    /\ UNCHANGED <<dirIdx, raisedIn>>
    /\ Frame

\* line 171 up to the open of line 141
TextStart ==
    /\ pc = "text"
    /\ LET r == update_text_report(fs[dirIdx].in_txt, severity_map)
       IN  CASE r.status = "notfound" ->
                  pc' = "unlink_sarif" /\ UNCHANGED <<fs, raisedIn>>
             [] r.status = "raised" ->
                  Raise("document") /\ UNCHANGED fs
             [] r.status = "written" ->
                  /\ fs' = [fs EXCEPT ![dirIdx].out_txt = PartialFile]
                  /\ pc' = "text_write"
                  /\ UNCHANGED raisedIn
    /\ UNCHANGED dirIdx
    /\ Frame

\* line 142
TextWrite ==
    /\ pc = "text_write"
    /\ fs' = [fs EXCEPT ![dirIdx].out_txt =
                 update_text_report(fs[dirIdx].in_txt, severity_map).out]
    /\ pc' = "unlink_sarif"
    /\ UNCHANGED <<dirIdx, raisedIn>>
    /\ Frame

\* an OSError from open(output_path, 'w') or from the write: nothing catches it
OutputError ==
    /\ \/ pc = "sarif" /\ update_sarif(fs[dirIdx].in_sarif, severity_map).status = "written"
       \/ pc = "text" /\ update_text_report(fs[dirIdx].in_txt, severity_map).status = "written"
       \/ pc \in {"sarif_dump", "text_write"}
    /\ Raise("oserror")
    /\ UNCHANGED <<fs, dirIdx>>
    /\ Frame

\* the end of the loop body: the next directory, or line 185
NextDir ==
    IF dirIdx < NumDirs THEN pc' = "sarif" /\ dirIdx' = dirIdx + 1
    ELSE pc' = "done" /\ dirIdx' = dirIdx

\* lines 174-176
UnlinkSarif ==
    /\ pc = "unlink_sarif"
    /\ fs' = [fs EXCEPT ![dirIdx].in_sarif = AbsentFile]
    /\ pc' = "unlink_txt"
    /\ UNCHANGED <<dirIdx, raisedIn>>
    /\ Frame

\* lines 178-180
UnlinkTxt ==
    /\ pc = "unlink_txt"
    /\ fs' = [fs EXCEPT ![dirIdx].in_txt = AbsentFile]
    /\ NextDir
    /\ UNCHANGED raisedIn
    /\ Frame

\* lines 182-183: unlink raised, the warning is printed, the loop goes on
UnlinkError ==
    /\ \/ pc = "unlink_sarif" /\ fs[dirIdx].in_sarif.kind # "absent"
       \/ pc = "unlink_txt" /\ fs[dirIdx].in_txt.kind # "absent"
    /\ NextDir
    /\ UNCHANGED <<fs, raisedIn>>
    /\ Frame

\* the process is killed between two steps
Crash ==
    /\ pc \in Running
    /\ pc' = "crashed"
    /\ UNCHANGED <<fs, dirIdx, raisedIn>>
    /\ Frame

\* the script is started again over the same tree
Rerun ==
    /\ pc \in Ended
    /\ runNo < MaxMainRuns
    /\ pc' = "start"
    /\ runNo' = runNo + 1
    /\ fs0' = fs
    /\ severity_map' = EmptyDict
    /\ dirIdx' = 0
    /\ raisedIn' = {}
    /\ UNCHANGED <<csvFile, fs, loadVars, sarifVars, textVars>>

NextMain ==
    \/ MainLoad \/ SarifStart \/ SarifDump \/ TextStart \/ TextWrite \/ OutputError
    \/ UnlinkSarif \/ UnlinkTxt \/ UnlinkError \/ Crash \/ Rerun

SpecMain == InitMain /\ [][NextMain]_vars

Spec == SpecMain

-----------------------------------------------------------------------------
(* Claims about main *)

\* C1: a directory that held an input file when the run started holds that
\* file unchanged or the completely written enrichment of it, in every state,
\* the states after a crash or an exception included: an input is deleted
\* only after its output was written.
C1_OriginalOrEnriched ==
    pc # Idle =>
        \A d \in Dirs :
            /\ fs0[d].in_sarif.kind # "absent" =>
                  \/ fs[d].in_sarif = fs0[d].in_sarif
                  \/ /\ fs[d].out_sarif.kind = "json"
                     /\ fs[d].out_sarif =
                           update_sarif(fs0[d].in_sarif, load_severity_map(csvFile)).out
            /\ fs0[d].in_txt.kind # "absent" =>
                  \/ fs[d].in_txt = fs0[d].in_txt
                  \/ /\ fs[d].out_txt.kind = "text"
                     /\ fs[d].out_txt =
                           update_text_report(fs0[d].in_txt, load_severity_map(csvFile)).out

\* killed while the second directory's output was half written: the first
\* directory's inputs are deleted and its outputs written, the second still
\* holds its original
C1_Witness ==
    /\ pc = "crashed"
    /\ runNo = 1
    /\ \E d \in Dirs :
          /\ fs0[d].in_sarif.kind = "json" /\ fs[d].in_sarif.kind = "absent"
          /\ fs[d].out_sarif.kind = "json"
          /\ fs0[d].in_txt.kind = "text" /\ fs[d].in_txt.kind = "absent"
          /\ fs[d].out_txt.kind = "text"
    /\ \E d \in Dirs :
          /\ fs[d].out_sarif = PartialFile
          /\ fs[d].in_sarif.kind = "json"

\* the input of directory d can be enriched
SarifUsable(d) == update_sarif(fs0[d].in_sarif, severity_map).status = "written"
TextUsable(d)  == update_text_report(fs0[d].in_txt, severity_map).status = "written"

\* C2 as stated: when main has ended, by its last line or by an exception,
\* every directory in which no exception was raised has the enriched output
\* of each input it held.
C2_AsStated ==
    (pc \in {"done", "aborted"} /\ MainHasMap(severity_map)) =>
        \A d \in Dirs :
            (\A e \in raisedIn : e.dir # d) =>
                /\ SarifUsable(d) => fs[d].out_sarif.kind = "json"
                /\ TextUsable(d) => fs[d].out_txt.kind = "text"

\* C3: with the severity source absent, or the loaded map empty, main ends
\* without entering the loop: no file of any directory is written or deleted.
C3_EmptyMapTouchesNothing ==
    (~csvFile.exists \/ (pc \in Running \cup Ended /\ DOMAIN severity_map = {})) =>
        /\ fs = fs0
        /\ pc \in {"start", "done"}

\* main has returned with the source absent, leaving a directory's inputs
C3_Witness ==
    /\ pc = "done"
    /\ ~csvFile.exists
    /\ \E d \in Dirs : fs[d].in_sarif.kind = "json" /\ fs[d].in_txt.kind = "text"
                       /\ fs[d].out_sarif.kind = "absent" /\ fs[d].out_txt.kind = "absent"

\* C9 as stated, for runs in which no OSError was raised: when main has
\* ended, a directory without results_sarif.sarif but with results_cli.txt has
\* results_updated.txt, and every directory with both inputs usable has both
\* outputs.
C9_AsStated ==
    (/\ pc \in {"done", "aborted"}
     /\ MainHasMap(severity_map)
     /\ \A e \in raisedIn : e.cause = "document") =>
        \A d \in Dirs :
            /\ (fs0[d].in_sarif.kind = "absent" /\ TextUsable(d)) =>
                  fs[d].out_txt.kind = "text"
            /\ (SarifUsable(d) /\ TextUsable(d)) =>
                  fs[d].out_sarif.kind = "json" /\ fs[d].out_txt.kind = "text"

\* C9 for runs in which no exception was raised (holds; not what C9 states)
C9_NothingRaised ==
    raisedIn = {} => C9_AsStated

\* directory d was processed by an earlier run: inputs deleted, outputs there
Processed(f) ==
    /\ f.in_sarif.kind = "absent" /\ f.in_txt.kind = "absent"
    /\ f.out_sarif.kind = "json" /\ f.out_txt.kind = "text"

\* C10: no step of main changes a file of a directory whose inputs are
\* deleted and whose enriched outputs are present, so a run over such a
\* directory writes nothing, deletes nothing and leaves the outputs as they were.
C10_ProcessedDirUntouched ==
    [][\A d \in Dirs : (pc # Idle /\ Processed(fs[d])) => fs'[d] = fs[d]]_vars

\* a second run with a usable map has gone through a directory the first run
\* had processed, and has ended
C10_Witness ==
    /\ runNo = 2
    /\ pc = "done"
    /\ MainHasMap(severity_map)
    /\ \E d \in Dirs : Processed(fs0[d]) /\ fs[d] = fs0[d]

=============================================================================
